---- MODULE Spec2Model ----
(***************************************************************************)
(* Model of hydra::MeshIntegrator (src/src/reconstruction/                 *)
(* mesh_integrator.cpp): candidate selection, the per-call reset of the    *)
(* mesh store and the vertex-marker layer, the two thread-pool phases      *)
(* (interior, exterior) over a shared cursor, the per-block cell loops,    *)
(* the neighbour lookups of the exterior pass, colour/label painting and   *)
(* the clearing of the kMesh flag.                                         *)
(***************************************************************************)
EXTENDS Integers, Sequences, FiniteSets, TLC

VARIABLES
  integrator_threads,  \* config_.integrator_threads
  has_semantics,       \* semantic_layer_ != nullptr
  sdf_layer,           \* allocated block -> [voxels, updated (the kMesh flag)]
  vertex_layer,        \* allocated block -> set of voxels with on_surface = true
  mesh_layer,          \* allocated mesh block -> [vertices, indices, colors, updated]
  semantic_blocks,     \* mesh_layer_'s label vector per block
  pc,                  \* position of the thread that called generateMesh
  blocks,              \* generateMesh's local candidate list
  only_mesh_updated_blocks,
  clear_updated_flag,
  atomic_idx,          \* the cursor of the phase's ThreadSafeIndex
  wstate,              \* worker -> "loop" | "work" | "done"
  widx,                \* worker -> list_idx it holds
  fusions,             \* number of distance-field updates so far
  interior_calls,      \* history: updateBlockInterior invocations of this call, per list index
  exterior_calls,      \* history: updateBlockExterior invocations of this call, per list index
  cube_marked,         \* history: marker voxels the Cube Sampler set during this call
  update,              \* worker -> the mesh entry and marker writes of the block update it is inside of
  touching,            \* history: worker -> what the block update it is inside of touches
  pre,                 \* history: the layers as they were when this call started
  last,                \* history: parameters and result of the previous call
  cvps,                \* cell walk: voxels_per_side of the walked block
  cpass,               \* cell walk: "interior" | "exterior" | "done"
  cpos,                \* cell walk: cells of the current pass visited so far
  visited_interior,    \* cell walk: cells handed to extractMeshInsideBlock, in order
  visited_exterior,    \* cell walk: cells handed to extractMeshOnBorder, in order
  cube_field,          \* single cell: the distance layer the cell is read from
  cube_out,            \* single cell: << >>, or <<acc>> once the cell is extracted
  tracker_graphs,      \* pose graphs: graphs the tracker holds for the next fillPoseGraphs
  result_graphs,       \* pose graphs: result.pose_graphs
  msg_graphs,          \* pose graphs: history, the graphs of all messages so far
  tracker_pc,          \* pose graphs: "update" | "fill", what the caller does next
  gt_rooms,            \* room metrics: ground-truth room id -> set of place indices
  est_rooms,           \* room metrics: estimated room id -> set of place indices
  results              \* room metrics: << >>, or <<outcome of scoreRooms>>

vars == <<integrator_threads, has_semantics, sdf_layer, vertex_layer, mesh_layer,
          semantic_blocks, pc, blocks, only_mesh_updated_blocks, clear_updated_flag,
          atomic_idx, wstate, widx, fusions, interior_calls, exterior_calls,
          cube_marked, update, touching, pre, last, cvps, cpass, cpos, visited_interior,
          visited_exterior, cube_field, cube_out, tracker_graphs, result_graphs,
          msg_graphs, tracker_pc, gt_rooms, est_rooms, results>>

meshVars == <<integrator_threads, has_semantics, sdf_layer, vertex_layer, mesh_layer,
              semantic_blocks, pc, blocks, only_mesh_updated_blocks,
              clear_updated_flag, atomic_idx, wstate, widx, fusions, interior_calls,
              exterior_calls, cube_marked, update, touching, pre, last>>

walkVars == <<cvps, cpass, cpos, visited_interior, visited_exterior>>

cubeVars == <<cube_field, cube_out>>

trackerVars == <<tracker_graphs, result_graphs, msg_graphs, tracker_pc>>

roomVars == <<gt_rooms, est_rooms, results>>

(***************************************************************************)
(* Bounds.                                                                 *)
(***************************************************************************)
VPS == 2          \* voxels_per_side of the layers of the concurrent model
MaxThreads == 2   \* integrator_threads ranges over 0..MaxThreads
MaxFusions == 1   \* distance-field updates between generateMesh calls
MaxVps == 4       \* the cell walk covers voxels_per_side in 1..MaxVps
MaxMsgs == 4      \* messages handed to PoseGraphTracker::update
MaxGraphs == 2    \* pose graphs per message: 0..MaxGraphs
MaxRooms == 2     \* room ids of a room map: a subset of 1..MaxRooms
MaxIndex == 2     \* place indices of a room: a subset of 1..MaxIndex

min_weight == 1   \* config_.min_weight, in units of the weights below

\* The null marker reference of a corner that lies in another block.
NULL == << >>

(***************************************************************************)
(* Geometry.                                                               *)
(***************************************************************************)
\* cube_index_offsets_: column i is the offset of corner i of a cell.
cube_index_offsets ==
  << <<0, 0, 0>>, <<1, 0, 0>>, <<1, 1, 0>>, <<0, 1, 0>>,
     <<0, 0, 1>>, <<1, 0, 1>>, <<1, 1, 1>>, <<0, 1, 1>> >>

Corners == 1..8

Add3(a, b) == <<a[1] + b[1], a[2] + b[2], a[3] + b[3]>>

VoxelsOf(vps) == (0..(vps - 1)) \X (0..(vps - 1)) \X (0..(vps - 1))

\* Block<T>::isValidVoxelIndex
isValidVoxelIndex(vps, index) == \A j \in 1..3 : index[j] >= 0 /\ index[j] < vps

InteriorCellsNone(vps) == << >>

\* The cells updateBlockInterior hands to extractMeshInsideBlock, in loop order
\* (x outermost, z innermost, each in [0, vps - 1)).
InteriorCells(vps) ==
  LET n == vps - 1 IN
  [i \in 1..(n * n * n) |->
     <<(i - 1) \div (n * n), ((i - 1) \div n) % n, (i - 1) % n>>]

\* Max X plane: x = vps - 1, z outer and y inner over [0, vps).
MaxXPlane(vps) ==
  [i \in 1..(vps * vps) |-> <<vps - 1, (i - 1) % vps, (i - 1) \div vps>>]

MaxYPlaneFullRow(vps) ==
  [i \in 1..(vps * vps) |-> <<(i - 1) % vps, vps - 1, (i - 1) \div vps>>]

\* Max Y plane: y = vps - 1, z outer over [0, vps), x inner over [0, vps - 1).
MaxYPlane(vps) ==
  LET n == vps - 1 IN
  [i \in 1..(vps * n) |-> <<(i - 1) % n, vps - 1, (i - 1) \div n>>]

MaxZPlaneFull(vps) ==
  [i \in 1..(vps * vps) |-> <<(i - 1) % vps, (i - 1) \div vps, vps - 1>>]

\* Max Z plane: z = vps - 1, y outer and x inner over [0, vps - 1).
MaxZPlane(vps) ==
  LET n == vps - 1 IN
  [i \in 1..(n * n) |-> <<(i - 1) % n, (i - 1) \div n, vps - 1>>]

\* The cells updateBlockExterior hands to extractMeshOnBorder, in loop order.
ExteriorCells(vps) == MaxXPlane(vps) \o MaxYPlane(vps) \o MaxZPlane(vps)

\* getNeighborBlockIndex: the block holding a corner that left the block ...
getNeighborBlockIndex(vps, block_idx, corner_index) ==
  [j \in 1..3 |->
     IF corner_index[j] < 0 THEN block_idx[j] - 1
     ELSE IF corner_index[j] >= vps THEN block_idx[j] + 1
     ELSE block_idx[j]]

CornerIndexKept(vps, corner_index) == corner_index

\* ... and the corner index it rewrites in place.
wrappedCornerIndex(vps, corner_index) ==
  [j \in 1..3 |->
     IF corner_index[j] < 0 THEN corner_index[j] + vps
     ELSE IF corner_index[j] >= vps THEN corner_index[j] - vps
     ELSE corner_index[j]]

\* The voxel grid is global: voxel v of block b is grid point b * vps + v.
GridPoint(vps, b, v) == [j \in 1..3 |-> b[j] * vps + v[j]]

(***************************************************************************)
(* Distance-field contents.  A voxel is [d |-> distance, w |-> weight].    *)
(***************************************************************************)
Voxels == VoxelsOf(VPS)

Abs(x) == IF x < 0 THEN -x ELSE x

Min(a, b) == IF a <= b THEN a ELSE b

Patterns == {"neg", "corner_lo", "corner_hi", "edge_x", "invalid", "partial"}

\* The voxel contents one fusion update writes into a block: the surface passes
\* near one voxel of the block, or the block holds no (or not only) valid data.
PatternVoxels(p) ==
  LET m == VPS - 1 IN
  [v \in Voxels |->
     CASE p = "neg" -> [d |-> -1, w |-> 1]
       [] p = "corner_lo" -> [d |-> IF v = <<0, 0, 0>> THEN 1 ELSE -1, w |-> 1]
       [] p = "corner_hi" -> [d |-> IF v = <<m, m, m>> THEN 2 ELSE -1, w |-> 1]
       [] p = "edge_x" -> [d |-> IF v = <<m, 0, 0>> THEN 1 ELSE -2, w |-> 1]
       [] p = "invalid" -> [d |-> -1, w |-> 0]
       [] p = "partial" -> [d |-> IF v = <<0, 0, 0>> THEN 1 ELSE -1,
                            w |-> IF v = <<m, m, m>> THEN 0 ELSE 1]]

B000 == <<0, 0, 0>>
B100 == <<1, 0, 0>>
B010 == <<0, 1, 0>>
B110 == <<1, 1, 0>>
B001 == <<0, 0, 1>>
B101 == <<1, 0, 1>>
B011 == <<0, 1, 1>>
B111 == <<1, 1, 1>>

\* Every block index the model allocates, in the order getAllAllocatedBlocks and
\* getAllUpdatedBlocks list them.
BlockOrder == <<B000, B100, B010, B110, B001, B101, B011, B111>>

Universe == {BlockOrder[i] : i \in DOMAIN BlockOrder}

\* The set-ups a run starts from: the distance field (block -> pattern) and
\* whether a semantic layer is configured.
Scenes ==
  { [field |-> << >>, semantics |-> FALSE],
    [field |-> (B000 :> "corner_lo"), semantics |-> TRUE],
    [field |-> (B000 :> "edge_x") @@ (B100 :> "corner_lo"), semantics |-> FALSE],
    [field |-> (B000 :> "corner_hi") @@ (B100 :> "neg") @@ (B010 :> "partial"),
     semantics |-> TRUE] }

AnyWeight(voxel) == TRUE

\* vutils::getSdfIfValid: the voxel has data iff its weight reaches min_weight.
getSdfIfValid(voxel) == voxel.w >= min_weight

(***************************************************************************)
(* Cube Sampler (MarchingCubes::meshCube).  A vertex lies on an edge of    *)
(* the cell between two grid points of opposite sign: [from, to, near],    *)
(* near being the end point the interpolated position rounds to.           *)
(***************************************************************************)
CubeEdges ==
  << <<1, 2>>, <<2, 3>>, <<3, 4>>, <<4, 1>>, <<5, 6>>, <<6, 7>>,
     <<7, 8>>, <<8, 5>>, <<1, 5>>, <<2, 6>>, <<3, 7>>, <<4, 8>> >>

\* The edges of the cell the surface crosses.
CrossingEdges(sdf) ==
  SelectSeq(CubeEdges, LAMBDA e : (sdf[e[1]] < 0) # (sdf[e[2]] < 0))

\* The corner of edge e nearer to the zero crossing: t = d0 / (d0 - d1) <= 1/2.
NearCorner(sdf, e) == IF Abs(sdf[e[1]]) <= Abs(sdf[e[2]]) THEN e[1] ELSE e[2]

\* Number of triangles of a cell: a fan over its crossing edges, at most 5.
TriangleCount(sdf) ==
  IF Len(CrossingEdges(sdf)) = 0 THEN 0 ELSE Min(Len(CrossingEdges(sdf)) - 2, 5)

\* acc is [vertices, indices, next, written, reads]: the mesh being built, the
\* running next_mesh_index, the marker voxels on_surface was set on (as
\* <<block, voxel>>) and the distance blocks whose voxels were read.  coords are
\* the grid points of the 8 corners, sdf their distances, voxels the marker
\* voxel each corner refers to (NULL: none).
meshCube(coords, sdf, voxels, acc) ==
  LET crossing == CrossingEdges(sdf)
      n == IF Len(crossing) = 0 THEN 0 ELSE Min(Len(crossing) - 2, 5)
      vertexOn(e) == [from |-> coords[e[1]], to |-> coords[e[2]],
                      near |-> coords[NearCorner(sdf, e)]]
      edgeOf(i) == IF i % 3 = 1 THEN crossing[1]
                   ELSE crossing[((i - 1) \div 3) + 1 + ((i - 1) % 3)]
      used == {edgeOf(i) : i \in 1..(3 * n)}
      set == {voxels[NearCorner(sdf, e)] : e \in used} \ {NULL}
  IN IF n = 0 THEN acc ELSE
     [vertices |-> acc.vertices \o [i \in 1..(3 * n) |-> vertexOn(edgeOf(i))],
      indices |-> acc.indices \o [i \in 1..(3 * n) |-> acc.next + (i - 1)],
      next |-> acc.next + 3 * n,
      written |-> acc.written \cup set,
      reads |-> acc.reads]

(***************************************************************************)
(* Per-cell extraction.                                                    *)
(***************************************************************************)
\* Corner i of the cell at index, relative to the cell's block: whether it lies
\* in the block and, if not, the block_offset and the rewritten corner index of
\* getNeighborBlockIndex and the outcome of the CHECK on that index.
CornerGeometry ==
  [index \in Voxels |->
     [i \in Corners |->
        LET corner_index == Add3(index, cube_index_offsets[i]) IN
        [inside |-> isValidVoxelIndex(VPS, corner_index),
         block_offset |-> getNeighborBlockIndex(VPS, <<0, 0, 0>>, corner_index),
         voxel |-> wrappedCornerIndex(VPS, corner_index),
         check |-> isValidVoxelIndex(VPS, wrappedCornerIndex(VPS, corner_index))]]]

InsideCornerNoMarker(b, index, i) ==
  LET corner_index == Add3(index, cube_index_offsets[i]) IN
  [found |-> TRUE, block |-> b, voxel |-> corner_index,
   marker |-> NULL, check |-> TRUE]

\* Corner i of the cell at index, as extractMeshInsideBlock reads it.
InsideCorner(b, index, i) ==
  LET corner_index == Add3(index, cube_index_offsets[i]) IN
  [found |-> TRUE, block |-> b, voxel |-> corner_index,
   marker |-> <<b, corner_index>>, check |-> TRUE]

BorderCornerNoBlockTest(sdf, b, index, i) ==
  LET g == CornerGeometry[index][i]
      neighbor_idx == IF g.inside THEN b ELSE Add3(b, g.block_offset)
  IN [found |-> TRUE, block |-> IF neighbor_idx \in DOMAIN sdf THEN neighbor_idx ELSE b,
      voxel |-> g.voxel, marker |-> IF g.inside THEN <<b, g.voxel>> ELSE NULL,
      check |-> g.check]

BorderCornerNeighborMarker(sdf, b, index, i) ==
  LET g == CornerGeometry[index][i]
      neighbor_idx == IF g.inside THEN b ELSE Add3(b, g.block_offset)
  IN [found |-> neighbor_idx \in DOMAIN sdf, block |-> neighbor_idx,
      voxel |-> g.voxel, marker |-> <<neighbor_idx, g.voxel>>, check |-> g.check]

\* Corner i of the cell at index, as extractMeshOnBorder reads it: from the block
\* itself, or from the neighbour block the corner falls into (no marker then).
BorderCorner(sdf, b, index, i) ==
  LET g == CornerGeometry[index][i] IN
  IF g.inside
  THEN [found |-> TRUE, block |-> b, voxel |-> g.voxel, marker |-> <<b, g.voxel>>,
        check |-> TRUE]
  ELSE LET neighbor_idx == Add3(b, g.block_offset) IN
       [found |-> neighbor_idx \in DOMAIN sdf, block |-> neighbor_idx,
        voxel |-> g.voxel, marker |-> NULL, check |-> g.check]

CellCorner(sdf, b, index, i, border) ==
  IF border THEN BorderCorner(sdf, b, index, i) ELSE InsideCorner(b, index, i)

\* The corner loop of extractMeshInsideBlock / extractMeshOnBorder from corner i
\* on.  got is [stop, sdf, voxels, blocks]: the distances and marker references
\* gathered so far and the blocks whose voxels were read; stop becomes the
\* corner at which the loop returns (its block is missing or its voxel has no
\* data) and stays 9 if the loop runs to its end.
RECURSIVE CornerLoop(_, _, _, _, _, _)
CornerLoop(sdf, b, index, border, i, got) ==
  IF i > 8 THEN got
  ELSE LET c == CellCorner(sdf, b, index, i, border) IN
       IF ~c.found THEN [got EXCEPT !.stop = i]
       ELSE LET voxel == sdf[c.block].voxels[c.voxel] IN
            IF ~getSdfIfValid(voxel)
            THEN [got EXCEPT !.stop = i, !.blocks = @ \cup {c.block}]
            ELSE CornerLoop(sdf, b, index, border, i + 1,
                            [stop |-> 9, sdf |-> Append(got.sdf, voxel.d),
                             voxels |-> Append(got.voxels, c.marker),
                             blocks |-> got.blocks \cup {c.block}])

CellCorners(sdf, b, index, border) ==
  CornerLoop(sdf, b, index, border, 1,
             [stop |-> 9, sdf |-> << >>, voxels |-> << >>, blocks |-> {}])

\* The first corner at which the corner loop returns, 9 if it runs to its end.
FirstFail(sdf, b, index, border) == CellCorners(sdf, b, index, border).stop

\* The corners the loop reads before it returns or ends.
CornersRead(sdf, b, index, border) ==
  {i \in Corners : i <= FirstFail(sdf, b, index, border)}

extractCell(sdf, b, index, border, acc) ==
  LET got == CellCorners(sdf, b, index, border) IN
  IF got.stop # 9 THEN [acc EXCEPT !.reads = @ \cup got.blocks]
  ELSE meshCube([i \in Corners |-> GridPoint(VPS, b, Add3(index, cube_index_offsets[i]))],
                got.sdf, got.voxels, [acc EXCEPT !.reads = @ \cup got.blocks])

extractMeshInsideBlock(sdf, b, index, acc) == extractCell(sdf, b, index, FALSE, acc)

extractMeshOnBorder(sdf, b, index, acc) == extractCell(sdf, b, index, TRUE, acc)

\* The cell loops of the layers' voxels_per_side.
BlockInteriorCells == InteriorCells(VPS)

BlockExteriorCells == ExteriorCells(VPS)

RECURSIVE InteriorLoop(_, _, _, _)
InteriorLoop(sdf, b, k, acc) ==
  IF k > Len(BlockInteriorCells) THEN acc
  ELSE InteriorLoop(sdf, b, k + 1,
                    extractMeshInsideBlock(sdf, b, BlockInteriorCells[k], acc))

RECURSIVE ExteriorLoop(_, _, _, _)
ExteriorLoop(sdf, b, k, acc) ==
  IF k > Len(BlockExteriorCells) THEN acc
  ELSE ExteriorLoop(sdf, b, k + 1,
                    extractMeshOnBorder(sdf, b, BlockExteriorCells[k], acc))

(***************************************************************************)
(* Per-block passes.  A mesh entry is [vertices, indices, colors, updated].*)
(***************************************************************************)
\* The colour and the label an entry holds after resize, and the outcome of a
\* lookup in a block that is not allocated.
DefaultColor == <<"default">>

DefaultLabel == <<"zero">>

NullDeref == <<"null_deref">>

EmptyMesh == [vertices |-> << >>, indices |-> << >>, colors |-> << >>, updated |-> FALSE]

\* Mesh::clear: the sequences are emptied, the updated flag is not touched.
ClearMesh(mesh) == [mesh EXCEPT !.vertices = << >>, !.indices = << >>, !.colors = << >>]

\* The voxel updateMeshColor paints a vertex from: the voxel of block b at the
\* vertex position or, if that index is not in the block, the voxel of the block
\* holding the position (found: that block is allocated).
PaintVoxel(sdf, b, vertex) ==
  LET voxel_index == [j \in 1..3 |-> vertex.near[j] - b[j] * VPS] IN
  IF isValidVoxelIndex(VPS, voxel_index)
  THEN [found |-> TRUE, block |-> b, voxel |-> voxel_index]
  ELSE LET nb == [j \in 1..3 |-> vertex.near[j] \div VPS] IN
       [found |-> nb \in DOMAIN sdf, block |-> nb,
        voxel |-> [j \in 1..3 |-> vertex.near[j] % VPS]]

\* vutils::getColorIfValid: the colour stored at the voxel (the grid point stands
\* for it) if the voxel has data, else the vertex keeps the default colour.
PaintColor(sdf, b, vertex) ==
  LET pv == PaintVoxel(sdf, b, vertex) IN
  IF ~pv.found THEN NullDeref
  ELSE IF getSdfIfValid(sdf[pv.block].voxels[pv.voxel])
       THEN GridPoint(VPS, pv.block, pv.voxel)
       ELSE DefaultColor

\* The semantic label stored at the voxel (the grid point stands for it).
PaintLabel(sdf, b, vertex) ==
  LET pv == PaintVoxel(sdf, b, vertex) IN
  IF ~pv.found THEN NullDeref ELSE GridPoint(VPS, pv.block, pv.voxel)

updateMeshColorCleared(sdf, b, mesh) == [mesh EXCEPT !.colors = << >>]

\* updateMeshColor, the mesh part: colors is resized to indices.size() and the
\* entry of every vertex is painted.
updateMeshColor(sdf, b, mesh) ==
  [mesh EXCEPT !.colors =
     [i \in 1..Len(mesh.indices) |->
        IF i <= Len(mesh.vertices) THEN PaintColor(sdf, b, mesh.vertices[i])
        ELSE DefaultColor]]

\* updateMeshColor, the label part: the block's label vector is resized to
\* indices.size() and the entry of every vertex is set.
updateMeshLabels(sdf, b, mesh, labels) ==
  [i \in 1..Len(mesh.indices) |->
     IF i <= Len(mesh.vertices) THEN PaintLabel(sdf, b, mesh.vertices[i])
     ELSE IF i <= Len(labels) THEN labels[i] ELSE DefaultLabel]

BlockInteriorFromSize(sdf, b, mesh) ==
  LET r == InteriorLoop(sdf, b, 1,
             [vertices |-> mesh.vertices, indices |-> mesh.indices,
              next |-> Len(mesh.vertices), written |-> {}, reads |-> {}])
  IN [mesh |-> [mesh EXCEPT !.vertices = r.vertices, !.indices = r.indices],
      written |-> r.written, reads |-> r.reads, painted |-> {}]

\* The body of updateBlockInterior: the interior cells of b, numbered from 0.
\* The result is the mesh entry and the record of the pass: the marker voxels
\* it set (written) and the distance blocks it read (reads).
BlockInterior(sdf, b, mesh) ==
  LET r == InteriorLoop(sdf, b, 1,
             [vertices |-> mesh.vertices, indices |-> mesh.indices,
              next |-> 0, written |-> {}, reads |-> {}])
  IN [mesh |-> [mesh EXCEPT !.vertices = r.vertices, !.indices = r.indices],
      written |-> r.written, reads |-> r.reads, painted |-> {}]

BlockExteriorFromZero(sdf, b, mesh) ==
  LET r == ExteriorLoop(sdf, b, 1,
             [vertices |-> mesh.vertices, indices |-> mesh.indices,
              next |-> 0, written |-> {}, reads |-> {}])
      extracted == [mesh EXCEPT !.vertices = r.vertices, !.indices = r.indices]
  IN [mesh |-> [updateMeshColor(sdf, b, extracted) EXCEPT !.updated = TRUE],
      written |-> r.written, reads |-> r.reads,
      painted |-> {PaintVoxel(sdf, b, r.vertices[i]).block : i \in DOMAIN r.vertices}
                  \cap DOMAIN sdf]

BlockExteriorPaintFirst(sdf, b, mesh) ==
  LET painted == updateMeshColor(sdf, b, mesh)
      r == ExteriorLoop(sdf, b, 1,
             [vertices |-> mesh.vertices, indices |-> mesh.indices,
              next |-> Len(mesh.vertices), written |-> {}, reads |-> {}])
  IN [mesh |-> [painted EXCEPT !.vertices = r.vertices, !.indices = r.indices,
                               !.updated = TRUE],
      written |-> r.written, reads |-> r.reads,
      painted |-> {PaintVoxel(sdf, b, mesh.vertices[i]).block : i \in DOMAIN mesh.vertices}
                  \cap DOMAIN sdf]

\* The body of updateBlockExterior: the border cells, numbered from mesh->size(),
\* then painting, then updated.  painted: the blocks painting read voxels of.
BlockExterior(sdf, b, mesh) ==
  LET r == ExteriorLoop(sdf, b, 1,
             [vertices |-> mesh.vertices, indices |-> mesh.indices,
              next |-> Len(mesh.vertices), written |-> {}, reads |-> {}])
      extracted == [mesh EXCEPT !.vertices = r.vertices, !.indices = r.indices]
  IN [mesh |-> [updateMeshColor(sdf, b, extracted) EXCEPT !.updated = TRUE],
      written |-> r.written, reads |-> r.reads,
      painted |-> {PaintVoxel(sdf, b, r.vertices[i]).block : i \in DOMAIN r.vertices}
                  \cap DOMAIN sdf]

\* on_surface = true on every marker voxel in written.
SetMarkers(layer, written) ==
  [x \in DOMAIN layer |-> layer[x] \cup {m[2] : m \in {y \in written : y[1] = x}}]

\* What one block update touches, by layer: the distance blocks it reads voxels
\* of, the blocks whose marker voxels it writes, the mesh entries it reads and
\* writes, the label blocks it reads voxels of and the label vectors it writes.
Touches(b, r, exterior, semantics) ==
  [sdf_read |-> r.reads \cup r.painted,
   marker_write |-> {m[1] : m \in r.written},
   mesh_read |-> {b},
   mesh_write |-> {b},
   label_read |-> IF semantics THEN r.painted ELSE {},
   label_write |-> IF semantics /\ exterior THEN {b} ELSE {}]

\* A worker that is inside no block update.
NoUpdate == [mesh |-> EmptyMesh, written |-> {}]

NoTouch ==
  [sdf_read |-> {}, marker_write |-> {}, mesh_read |-> {}, mesh_write |-> {},
   label_read |-> {}, label_write |-> {}]

(***************************************************************************)
(* State machine.                                                          *)
(***************************************************************************)
Workers == 1..integrator_threads

SeqToSet(s) == {s[i] : i \in DOMAIN s}

Flagged(sdf) == {b \in DOMAIN sdf : sdf[b].updated}

\* The fusion updates: the block written and the contents it gets.
Scans == {<<B000, "invalid">>, <<B100, "corner_hi">>}

NoCall == [valid |-> FALSE]

WalkIdle ==
  /\ cvps = 0
  /\ cpass = "none"
  /\ cpos = 0
  /\ visited_interior = << >>
  /\ visited_exterior = << >>

CubeIdle ==
  /\ cube_field = << >>
  /\ cube_out = << >>

TrackerIdle ==
  /\ tracker_graphs = << >>
  /\ result_graphs = << >>
  /\ msg_graphs = << >>
  /\ tracker_pc = "none"

RoomsIdle ==
  /\ gt_rooms = << >>
  /\ est_rooms = << >>
  /\ results = << >>

Init ==
  /\ integrator_threads \in 0..MaxThreads
  /\ \E scene \in Scenes :
       /\ has_semantics = scene.semantics
       /\ sdf_layer = [b \in DOMAIN scene.field |->
                        [voxels |-> PatternVoxels(scene.field[b]), updated |-> TRUE]]
  /\ vertex_layer = << >>
  /\ mesh_layer = << >>
  /\ semantic_blocks = << >>
  /\ pc = "idle"
  /\ blocks = << >>
  /\ only_mesh_updated_blocks = FALSE
  /\ clear_updated_flag = FALSE
  /\ atomic_idx = 0
  /\ wstate = [w \in Workers |-> "done"]
  /\ widx = [w \in Workers |-> 0]
  /\ fusions = 0
  /\ interior_calls = << >>
  /\ exterior_calls = << >>
  /\ cube_marked = << >>
  /\ update = [w \in Workers |-> NoUpdate]
  /\ touching = [w \in Workers |-> NoTouch]
  /\ pre = NoCall
  /\ last = NoCall
  /\ WalkIdle
  /\ CubeIdle
  /\ TrackerIdle
  /\ RoomsIdle

\* The external fusion component writes one block (allocating it if needed) and
\* flags it for remeshing; it never runs during a generateMesh call.
Fusion ==
  /\ pc = "idle"
  /\ fusions < MaxFusions
  /\ \E scan \in Scans :
       sdf_layer' = [x \in DOMAIN sdf_layer \cup {scan[1]} |->
                       IF x = scan[1]
                       THEN [voxels |-> PatternVoxels(scan[2]), updated |-> TRUE]
                       ELSE sdf_layer[x]]
  /\ fusions' = fusions + 1
  /\ last' = NoCall
  /\ UNCHANGED <<integrator_threads, has_semantics, vertex_layer, mesh_layer,
                 semantic_blocks, pc, blocks, only_mesh_updated_blocks,
                 clear_updated_flag, atomic_idx, wstate, widx, interior_calls,
                 exterior_calls, cube_marked, update, touching, pre>>
  /\ UNCHANGED <<walkVars, cubeVars, trackerVars, roomVars>>

CandidateBlocksAll(sdf, only_updated) ==
  SelectSeq(BlockOrder, LAMBDA b : b \in DOMAIN sdf)

\* The candidate list: getAllUpdatedBlocks(kMesh) or getAllAllocatedBlocks.
CandidateBlocks(sdf, only_updated) ==
  SelectSeq(BlockOrder,
            LAMBDA b : b \in DOMAIN sdf /\ (only_updated => sdf[b].updated))

ResetMarkersSkipped(layer, cand) ==
  [b \in DOMAIN layer \cup cand |-> IF b \in DOMAIN layer THEN layer[b] ELSE {}]

\* allocateBlockPtrByIndex and the reset loop: every on_surface of a candidate
\* block becomes false.
ResetMarkers(layer, cand) ==
  [b \in DOMAIN layer \cup cand |-> IF b \in cand THEN {} ELSE layer[b]]

ResetMeshesKeep(layer, cand) ==
  [b \in DOMAIN layer \cup cand |-> IF b \in DOMAIN layer THEN layer[b] ELSE EmptyMesh]

\* allocateBlock and clear: a candidate's mesh entry is created or emptied.
ResetMeshes(layer, cand) ==
  [b \in DOMAIN layer \cup cand |->
     IF b \in cand
     THEN (IF b \in DOMAIN layer THEN ClearMesh(layer[b]) ELSE EmptyMesh)
     ELSE layer[b]]

\* allocateBlock with semantics: the label vector of a candidate is created if
\* the block has none.
AllocateSemantics(layer, cand) ==
  [b \in DOMAIN layer \cup cand |-> IF b \in DOMAIN layer THEN layer[b] ELSE << >>]

\* generateMesh up to the first launchThreads: select, allocate, clear, reset.
generateMesh(only_updated, clear_flag) ==
  /\ pc = "idle"
  /\ \E list \in {CandidateBlocks(sdf_layer, only_updated)} :
     \E cand \in {SeqToSet(list)} :
        /\ blocks' = list
        /\ mesh_layer' = ResetMeshes(mesh_layer, cand)
        /\ semantic_blocks' = IF has_semantics
                              THEN AllocateSemantics(semantic_blocks, cand)
                              ELSE semantic_blocks
        /\ vertex_layer' = ResetMarkers(vertex_layer, cand)
        /\ interior_calls' = [i \in 1..Len(list) |-> 0]
        /\ exterior_calls' = [i \in 1..Len(list) |-> 0]
        /\ cube_marked' = [b \in DOMAIN vertex_layer \cup cand |-> {}]
  /\ only_mesh_updated_blocks' = only_updated
  /\ clear_updated_flag' = clear_flag
  /\ pre' = [valid |-> TRUE, mesh |-> mesh_layer, vertex |-> vertex_layer,
             semantics |-> semantic_blocks, flagged |-> Flagged(sdf_layer)]
  /\ pc' = "launch_interior"
  /\ UNCHANGED <<integrator_threads, has_semantics, sdf_layer, atomic_idx, wstate,
                 widx, fusions, update, touching, last>>
  /\ UNCHANGED <<walkVars, cubeVars, trackerVars, roomVars>>

\* launchThreads, first loop: a fresh cursor and integrator_threads workers.
launchThreads ==
  /\ pc \in {"launch_interior", "launch_exterior"}
  /\ atomic_idx' = 0
  /\ wstate' = [w \in Workers |-> "loop"]
  /\ widx' = [w \in Workers |-> 0]
  /\ update' = [w \in Workers |-> NoUpdate]
  /\ touching' = [w \in Workers |-> NoTouch]
  /\ pc' = IF pc = "launch_interior" THEN "join_interior" ELSE "join_exterior"
  /\ UNCHANGED <<integrator_threads, has_semantics, sdf_layer, vertex_layer,
                 mesh_layer, semantic_blocks, blocks, only_mesh_updated_blocks,
                 clear_updated_flag, fusions, interior_calls, exterior_calls,
                 cube_marked, pre, last>>
  /\ UNCHANGED <<walkVars, cubeVars, trackerVars, roomVars>>

AllJoined == \A w \in Workers : wstate[w] = "done"

JoinNothing == TRUE

JoinNever == FALSE

\* The condition under which the join loop of launchThreads ends.
JoinCondition == AllJoined

\* launchThreads, second loop: returns once every worker has been joined.
joinThreads ==
  /\ pc \in {"join_interior", "join_exterior"}
  /\ JoinCondition
  /\ pc' = IF pc = "join_interior" THEN "launch_exterior" ELSE "clear_flags"
  /\ UNCHANGED <<integrator_threads, has_semantics, sdf_layer, vertex_layer,
                 mesh_layer, semantic_blocks, blocks, only_mesh_updated_blocks,
                 clear_updated_flag, atomic_idx, wstate, widx, fusions,
                 interior_calls, exterior_calls, cube_marked, update, touching, pre, last>>
  /\ UNCHANGED <<walkVars, cubeVars, trackerVars, roomVars>>

OnePointShort == Len(blocks) - 1

\* new MixedThreadSafeIndex(blocks.size()): the number of tickets of a phase.
number_of_points == Len(blocks)

\* ThreadSafeIndex::getNextIndex: one atomic fetch-and-add of the cursor; the
\* ticket is a list index while it is below number_of_points.
getNextIndex(w) ==
  /\ wstate[w] = "loop"
  /\ atomic_idx' = atomic_idx + 1
  /\ IF atomic_idx >= number_of_points
     THEN /\ wstate' = [wstate EXCEPT ![w] = "done"]
          /\ UNCHANGED widx
     ELSE /\ wstate' = [wstate EXCEPT ![w] = "work"]
          /\ widx' = [widx EXCEPT ![w] = atomic_idx]

FirstBlock(list_idx) == blocks[1]

\* blocks[list_idx]
BlockOf(list_idx) == blocks[list_idx + 1]

\* processInterior: the loop condition; with a ticket the worker enters
\* updateBlockInterior(blocks[list_idx]).  The update reads the distance layer,
\* which no one writes during the call, and the block's own mesh entry; what it
\* will have written when it returns is kept in update.
processInterior(w) ==
  /\ pc = "join_interior"
  /\ getNextIndex(w)
  /\ IF atomic_idx >= number_of_points
     THEN UNCHANGED <<update, touching>>
     ELSE \E b \in {BlockOf(atomic_idx)} :
          \E r \in {BlockInterior(sdf_layer, b, mesh_layer[b])} :
             /\ update' = [update EXCEPT ![w] = [mesh |-> r.mesh, written |-> r.written]]
             /\ touching' = [touching EXCEPT ![w] = Touches(b, r, FALSE, has_semantics)]
  /\ UNCHANGED <<integrator_threads, has_semantics, sdf_layer, vertex_layer,
                 mesh_layer, semantic_blocks, pc, blocks, only_mesh_updated_blocks,
                 clear_updated_flag, fusions, interior_calls, exterior_calls,
                 cube_marked, pre, last>>
  /\ UNCHANGED <<walkVars, cubeVars, trackerVars, roomVars>>

\* processExterior: the same with updateBlockExterior(blocks[list_idx]).
processExterior(w) ==
  /\ pc = "join_exterior"
  /\ getNextIndex(w)
  /\ IF atomic_idx >= number_of_points
     THEN UNCHANGED <<update, touching>>
     ELSE \E b \in {BlockOf(atomic_idx)} :
          \E r \in {BlockExterior(sdf_layer, b, mesh_layer[b])} :
             /\ update' = [update EXCEPT ![w] = [mesh |-> r.mesh, written |-> r.written]]
             /\ touching' = [touching EXCEPT ![w] = Touches(b, r, TRUE, has_semantics)]
  /\ UNCHANGED <<integrator_threads, has_semantics, sdf_layer, vertex_layer,
                 mesh_layer, semantic_blocks, pc, blocks, only_mesh_updated_blocks,
                 clear_updated_flag, fusions, interior_calls, exterior_calls,
                 cube_marked, pre, last>>
  /\ UNCHANGED <<walkVars, cubeVars, trackerVars, roomVars>>

\* updateBlockInterior(blocks[list_idx]) returns: its writes are in place.
updateBlockInterior(w) ==
  /\ pc = "join_interior"
  /\ wstate[w] = "work"
  /\ mesh_layer' = [mesh_layer EXCEPT ![BlockOf(widx[w])] = update[w].mesh]
  /\ vertex_layer' = SetMarkers(vertex_layer, update[w].written)
  /\ cube_marked' = SetMarkers(cube_marked, update[w].written)
  /\ interior_calls' = [interior_calls EXCEPT ![widx[w] + 1] = @ + 1]
  /\ wstate' = [wstate EXCEPT ![w] = "loop"]
  /\ widx' = [widx EXCEPT ![w] = 0]
  /\ update' = [update EXCEPT ![w] = NoUpdate]
  /\ touching' = [touching EXCEPT ![w] = NoTouch]
  /\ UNCHANGED <<integrator_threads, has_semantics, sdf_layer, semantic_blocks, pc,
                 blocks, only_mesh_updated_blocks, clear_updated_flag, atomic_idx,
                 fusions, exterior_calls, pre, last>>
  /\ UNCHANGED <<walkVars, cubeVars, trackerVars, roomVars>>

\* updateBlockExterior(blocks[list_idx]) returns: its writes, the painted colors
\* and labels included, are in place.
updateBlockExterior(w) ==
  /\ pc = "join_exterior"
  /\ wstate[w] = "work"
  /\ \E b \in {BlockOf(widx[w])} :
        /\ mesh_layer' = [mesh_layer EXCEPT ![b] = update[w].mesh]
        /\ semantic_blocks' =
             IF has_semantics
             THEN [semantic_blocks EXCEPT
                     ![b] = updateMeshLabels(sdf_layer, b, update[w].mesh,
                                             semantic_blocks[b])]
             ELSE semantic_blocks
  /\ vertex_layer' = SetMarkers(vertex_layer, update[w].written)
  /\ cube_marked' = SetMarkers(cube_marked, update[w].written)
  /\ exterior_calls' = [exterior_calls EXCEPT ![widx[w] + 1] = @ + 1]
  /\ wstate' = [wstate EXCEPT ![w] = "loop"]
  /\ widx' = [widx EXCEPT ![w] = 0]
  /\ update' = [update EXCEPT ![w] = NoUpdate]
  /\ touching' = [touching EXCEPT ![w] = NoTouch]
  /\ UNCHANGED <<integrator_threads, has_semantics, sdf_layer, pc, blocks,
                 only_mesh_updated_blocks, clear_updated_flag, atomic_idx, fusions,
                 interior_calls, pre, last>>
  /\ UNCHANGED <<walkVars, cubeVars, trackerVars, roomVars>>

ClearFlagsAndData(sdf, list, clear_flag) ==
  [b \in DOMAIN sdf |->
     IF clear_flag /\ b \in SeqToSet(list)
     THEN [voxels |-> PatternVoxels("invalid"), updated |-> FALSE]
     ELSE sdf[b]]

ClearFlagsAlways(sdf, list, clear_flag) ==
  [b \in DOMAIN sdf |->
     IF b \in SeqToSet(list) THEN [sdf[b] EXCEPT !.updated = FALSE] ELSE sdf[b]]

\* The last loop of generateMesh: updated().reset(kMesh) on every candidate.
ClearFlags(sdf, list, clear_flag) ==
  [b \in DOMAIN sdf |->
     IF clear_flag /\ b \in SeqToSet(list) THEN [sdf[b] EXCEPT !.updated = FALSE]
     ELSE sdf[b]]

\* generateMesh after the second launchThreads, up to its return; its locals
\* and the history of the call end with it.
finishGenerateMesh ==
  /\ pc = "clear_flags"
  /\ sdf_layer' = ClearFlags(sdf_layer, blocks, clear_updated_flag)
  /\ pc' = "idle"
  /\ last' = IF ~only_mesh_updated_blocks /\ clear_updated_flag
             THEN [valid |-> TRUE, mesh |-> mesh_layer, semantics |-> semantic_blocks]
             ELSE NoCall
  /\ blocks' = << >>
  /\ only_mesh_updated_blocks' = FALSE
  /\ clear_updated_flag' = FALSE
  /\ atomic_idx' = 0
  /\ interior_calls' = << >>
  /\ exterior_calls' = << >>
  /\ cube_marked' = << >>
  /\ pre' = NoCall
  /\ UNCHANGED <<integrator_threads, has_semantics, vertex_layer, mesh_layer,
                 semantic_blocks, wstate, widx, fusions, update, touching>>
  /\ UNCHANGED <<walkVars, cubeVars, trackerVars, roomVars>>

Next ==
  \/ Fusion
  \/ \E only_updated \in BOOLEAN, clear_flag \in BOOLEAN :
       generateMesh(only_updated, clear_flag)
  \/ launchThreads
  \/ joinThreads
  \/ \E w \in Workers : processInterior(w)
  \/ \E w \in Workers : updateBlockInterior(w)
  \/ \E w \in Workers : processExterior(w)
  \/ \E w \in Workers : updateBlockExterior(w)
  \/ finishGenerateMesh

Spec == Init /\ [][Next]_vars

\* The steps of the thread that called generateMesh.
MainStep == launchThreads \/ joinThreads \/ finishGenerateMesh

\* Worker w moves on in processInterior / processExterior: it draws a ticket,
\* returns from the block update it is in, or leaves its loop.  Between a
\* launch and its join these are the only steps that change wstate[w], and one
\* of them is possible as long as w has not left its loop.
WorkerStep(w) ==
  /\ w \in Workers
  /\ pc \in {"join_interior", "join_exterior"}
  /\ wstate[w] # "done"
  /\ \E x \in {"loop", "work", "done"} \ {wstate[w]} :
        wstate' = [wstate EXCEPT ![w] = x]

\* The same program under a fair scheduler: a thread that can take a step is
\* not delayed for ever.  When the integrator is called and when the field is
\* fused is left to the environment.
FairSpec ==
  /\ Init
  /\ [][Next]_vars
  /\ WF_vars(MainStep)
  /\ \A w \in 1..MaxThreads : WF_wstate(WorkerStep(w))

\* No integrator is running: the state of the mesh integrator in the
\* specifications that follow one routine on its own.
MeshIdle ==
  /\ integrator_threads = 0
  /\ has_semantics = FALSE
  /\ sdf_layer = << >>
  /\ vertex_layer = << >>
  /\ mesh_layer = << >>
  /\ semantic_blocks = << >>
  /\ pc = "idle"
  /\ blocks = << >>
  /\ only_mesh_updated_blocks = FALSE
  /\ clear_updated_flag = FALSE
  /\ atomic_idx = 0
  /\ wstate = << >>
  /\ widx = << >>
  /\ fusions = 0
  /\ interior_calls = << >>
  /\ exterior_calls = << >>
  /\ cube_marked = << >>
  /\ update = << >>
  /\ touching = << >>
  /\ pre = NoCall
  /\ last = NoCall

(***************************************************************************)
(* The cell loops of updateBlockInterior and updateBlockExterior, one       *)
(* iteration at a time, for a block of voxels_per_side cvps.                *)
(***************************************************************************)
InitCells ==
  /\ cvps \in 1..MaxVps
  /\ cpass = "interior"
  /\ cpos = 0
  /\ visited_interior = << >>
  /\ visited_exterior = << >>
  /\ MeshIdle
  /\ CubeIdle
  /\ TrackerIdle
  /\ RoomsIdle

\* One iteration of the innermost loop of updateBlockInterior.
interiorCell ==
  /\ cpass = "interior"
  /\ cpos < Len(InteriorCells(cvps))
  /\ visited_interior' = Append(visited_interior, InteriorCells(cvps)[cpos + 1])
  /\ cpos' = cpos + 1
  /\ UNCHANGED <<cvps, cpass, visited_exterior>>
  /\ UNCHANGED <<meshVars, cubeVars, trackerVars, roomVars>>

\* updateBlockInterior returns; updateBlockExterior starts on the same block.
interiorDone ==
  /\ cpass = "interior"
  /\ cpos = Len(InteriorCells(cvps))
  /\ cpass' = "exterior"
  /\ cpos' = 0
  /\ UNCHANGED <<cvps, visited_interior, visited_exterior>>
  /\ UNCHANGED <<meshVars, cubeVars, trackerVars, roomVars>>

\* One iteration of an inner loop of updateBlockExterior (max X, max Y, max Z).
exteriorCell ==
  /\ cpass = "exterior"
  /\ cpos < Len(ExteriorCells(cvps))
  /\ visited_exterior' = Append(visited_exterior, ExteriorCells(cvps)[cpos + 1])
  /\ cpos' = cpos + 1
  /\ UNCHANGED <<cvps, cpass, visited_interior>>
  /\ UNCHANGED <<meshVars, cubeVars, trackerVars, roomVars>>

\* The last plane loop of updateBlockExterior ends.
exteriorDone ==
  /\ cpass = "exterior"
  /\ cpos = Len(ExteriorCells(cvps))
  /\ cpass' = "done"
  /\ UNCHANGED <<cvps, cpos, visited_interior, visited_exterior>>
  /\ UNCHANGED <<meshVars, cubeVars, trackerVars, roomVars>>

NextCells ==
  \/ interiorCell
  \/ interiorDone
  \/ exteriorCell
  \/ exteriorDone

SpecCells == InitCells /\ [][NextCells]_vars

(***************************************************************************)
(* One interior cell on its own: the cell at voxel (0,0,0) of a single     *)
(* block, for every assignment of distances to its 8 corners and with at   *)
(* most one corner without data.                                           *)
(***************************************************************************)
\* The distances a corner voxel can hold.
Distances == {-1, 1, 2}

\* The index of the sampled cell.
Origin == <<0, 0, 0>>

\* A layer of one block whose voxels at the corners of the cell hold sdf; the
\* voxel at corner hole (0: none) has weight 0, all others weight 1.
CubeField(sdf, hole) ==
  (B000 :>
     [voxels |->
        [v \in Voxels |->
           IF \E i \in Corners : v = cube_index_offsets[i]
           THEN LET i == CHOOSE j \in Corners : v = cube_index_offsets[j] IN
                [d |-> sdf[i], w |-> IF i = hole THEN 0 ELSE 1]
           ELSE [d |-> -1, w |-> 1]],
      updated |-> TRUE])

\* An accumulator at the start of a block pass.
FreshPass == [vertices |-> << >>, indices |-> << >>, next |-> 0, written |-> {}, reads |-> {}]

InitCube ==
  /\ \E sdf \in [Corners -> Distances] : \E hole \in 0..8 :
        cube_field = CubeField(sdf, hole)
  /\ cube_out = << >>
  /\ MeshIdle
  /\ WalkIdle
  /\ TrackerIdle
  /\ RoomsIdle

\* extractMeshInsideBlock on the cell, as the first cell of a pass.
sampleCell ==
  /\ cube_out = << >>
  /\ cube_out' = <<extractMeshInsideBlock(cube_field, B000, Origin, FreshPass)>>
  /\ UNCHANGED cube_field
  /\ UNCHANGED <<meshVars, walkVars, trackerVars, roomVars>>

NextCube == sampleCell

SpecCube == InitCube /\ [][NextCube]_vars

(***************************************************************************)
(* PoseGraphTracker with make_pose_graph = false, driven as its test       *)
(* drives it: update(msg), then fillPoseGraphs(result) on the same result. *)
(* A pose graph is named <<message number, position in the message>>.      *)
(***************************************************************************)
\* The graphs of the n-th message when it carries k of them.
MessageGraphs(n, k) == [j \in 1..k |-> <<n, j>>]

\* The tracker, msg and result objects of the test, just constructed.
InitTracker ==
  /\ tracker_graphs = << >>
  /\ result_graphs = << >>
  /\ msg_graphs = << >>
  /\ tracker_pc = "update"
  /\ MeshIdle
  /\ WalkIdle
  /\ CubeIdle
  /\ RoomsIdle

\* What update keeps for the next fillPoseGraphs: the graphs it held and the
\* graphs of the message.
UpdatedGraphs(graphs, msg) == graphs \o msg

FilledGraphsOverwrite(result, graphs) == graphs

\* result.pose_graphs after fillPoseGraphs: the graphs the tracker held are
\* appended to what the result already holds.
FilledGraphs(result, graphs) == result \o graphs

\* tracker.update(msg) with a message of 0..MaxGraphs pose graphs.
update_msg ==
  /\ tracker_pc = "update"
  /\ Len(msg_graphs) < MaxMsgs
  /\ \E k \in 0..MaxGraphs :
        LET msg == MessageGraphs(Len(msg_graphs) + 1, k) IN
        /\ tracker_graphs' = UpdatedGraphs(tracker_graphs, msg)
        /\ msg_graphs' = Append(msg_graphs, msg)
  /\ tracker_pc' = "fill"
  /\ UNCHANGED result_graphs
  /\ UNCHANGED <<meshVars, walkVars, cubeVars, roomVars>>

\* tracker.fillPoseGraphs(result): the tracker hands over what it holds and
\* keeps nothing.
fillPoseGraphs ==
  /\ tracker_pc = "fill"
  /\ result_graphs' = FilledGraphs(result_graphs, tracker_graphs)
  /\ tracker_graphs' = << >>
  /\ tracker_pc' = "update"
  /\ UNCHANGED msg_graphs
  /\ UNCHANGED <<meshVars, walkVars, cubeVars, roomVars>>

NextTracker == update_msg \/ fillPoseGraphs

SpecTracker == InitTracker /\ [][NextTracker]_vars

(***************************************************************************)
(* Properties of the thread pool.                                          *)
(***************************************************************************)
\* Invocations of the per-block routine for list index i - 1 so far in the
\* call: the ones that returned and the ones a worker is inside of.
InteriorInvocations(i) ==
  interior_calls[i]
  + Cardinality({w \in Workers :
                   pc = "join_interior" /\ wstate[w] = "work" /\ widx[w] = i - 1})

ExteriorInvocations(i) ==
  exterior_calls[i]
  + Cardinality({w \in Workers :
                   pc = "join_exterior" /\ wstate[w] = "work" /\ widx[w] = i - 1})

\* C1: with at least one worker, the cursor hands out only list indices in
\* [0, N), no candidate block is handed to updateBlockInterior or to
\* updateBlockExterior more than once in a call, and once a phase has been
\* joined the routine of that phase has run exactly once for every candidate.
WorkQueueExhaustion ==
  integrator_threads >= 1 =>
    /\ \A w \in Workers :
         wstate[w] = "work" => widx[w] >= 0 /\ widx[w] < Len(blocks)
    /\ \A i \in DOMAIN interior_calls :
         InteriorInvocations(i) <= 1 /\ ExteriorInvocations(i) <= 1
    /\ pc \in {"launch_exterior", "join_exterior", "clear_flags"} =>
         \A i \in 1..Len(blocks) : interior_calls[i] = 1
    /\ pc = "clear_flags" => \A i \in 1..Len(blocks) : exterior_calls[i] = 1

\* Fewer workers than candidates, both phases joined.
WorkQueueExhaustedWitness ==
  /\ pc = "clear_flags"
  /\ integrator_threads = 2
  /\ Len(blocks) = 3
  /\ \A i \in 1..3 : interior_calls[i] = 1 /\ exterior_calls[i] = 1

\* C2: once any worker has started the exterior update of a block, the
\* interior update of every candidate block of the call has returned.
PhaseBarrier ==
  ( \/ \E w \in Workers : pc = "join_exterior" /\ wstate[w] = "work"
    \/ \E i \in DOMAIN exterior_calls : exterior_calls[i] > 0 )
  => \A i \in DOMAIN interior_calls : interior_calls[i] = 1

\* Two workers, several candidates, one worker inside an exterior update while
\* another exterior update is still to come.
PhaseBarrierWitness ==
  /\ pc = "join_exterior"
  /\ integrator_threads = 2
  /\ Len(blocks) >= 2
  /\ \E w \in Workers : wstate[w] = "work"
  /\ \E i \in DOMAIN exterior_calls : ExteriorInvocations(i) = 0

\* C3: two workers that are inside a block update at the same time write
\* neither the mesh entry (nor the label vector) nor marker voxels of the
\* same block, and neither reads a mesh entry the other writes; marker voxels
\* are written only, never read, by the updates.
SingleWriterPerBlock ==
  LET t == touching IN
  \A w1 \in Workers : \A w2 \in Workers \ {w1} :
     /\ t[w1].mesh_write \cap t[w2].mesh_write = {}
     /\ t[w1].mesh_read \cap t[w2].mesh_write = {}
     /\ t[w1].label_write \cap t[w2].label_write = {}
     /\ t[w1].marker_write \cap t[w2].marker_write = {}

\* Two workers inside interior updates of different blocks, each setting markers.
SingleWriterWitness ==
  /\ pc = "join_interior"
  /\ \A w \in Workers : wstate[w] = "work"
  /\ integrator_threads = 2
  /\ LET t == touching IN \A w \in Workers : t[w].marker_write # {}

\* The voxels of any layer a worker touches, by block.
VoxelTouch(t) == t.sdf_read \cup t.marker_write \cup t.label_read

\* C4 as stated: no two workers inside a block update touch voxels of the
\* same block, in any layer.
OneThreadPerBlockVoxels ==
  LET t == touching IN
  \A w1 \in Workers : \A w2 \in Workers \ {w1} :
     VoxelTouch(t[w1]) \cap VoxelTouch(t[w2]) = {}

\* C4, amended: a worker inside a block update writes marker voxels of the
\* block it claimed only, so no two workers touch marker voxels of the same
\* block; in the interior phase it reads distance voxels of that block only
\* and no label voxel.  (In the exterior phase distance and label voxels of a
\* block are read, never written, possibly by several workers.)
OwnMarkersSharedReads ==
  LET t == touching IN
  /\ \A w \in Workers :
       wstate[w] = "work" =>
         /\ t[w].marker_write \subseteq {BlockOf(widx[w])}
         /\ pc = "join_interior" =>
              t[w].sdf_read \subseteq {BlockOf(widx[w])} /\ t[w].label_read = {}
  /\ \A w1 \in Workers : \A w2 \in Workers \ {w1} :
       t[w1].marker_write \cap t[w2].marker_write = {}

\* Two workers inside exterior updates that read distance voxels of the same
\* block while one of them sets markers of its own block.
SharedReadsWitness ==
  /\ pc = "join_exterior"
  /\ LET t == touching IN
     \E w1 \in Workers : \E w2 \in Workers \ {w1} :
        /\ t[w1].sdf_read \cap t[w2].sdf_read # {}
        /\ t[w1].marker_write # {}
(***************************************************************************)
(* Properties of the cell loops.                                           *)
(***************************************************************************)
\* The cell anchored at voxel cell has a corner outside the block.
OutsideCorner(vps, cell) ==
  \E i \in Corners : ~isValidVoxelIndex(vps, Add3(cell, cube_index_offsets[i]))

NoRepeat(s) == \A i \in DOMAIN s : \A j \in DOMAIN s : i # j => s[i] # s[j]

\* C5: for each voxels_per_side in 1..MaxVps, no cell is visited twice by the
\* two passes; the interior pass visits only cells of the block with all 8
\* corners inside and, when it ends, has visited all of them; the exterior
\* pass visits only cells of the block with a corner outside and, when it
\* ends, has visited all of them, so that the two passes have visited
\* voxels_per_side^3 cells, every cell of the block once.
CellCoverage ==
  /\ NoRepeat(visited_interior \o visited_exterior)
  /\ \A i \in DOMAIN visited_interior :
       /\ visited_interior[i] \in VoxelsOf(cvps)
       /\ ~OutsideCorner(cvps, visited_interior[i])
  /\ \A i \in DOMAIN visited_exterior :
       /\ visited_exterior[i] \in VoxelsOf(cvps)
       /\ OutsideCorner(cvps, visited_exterior[i])
  /\ cpass \in {"exterior", "done"} =>
       SeqToSet(visited_interior) = {c \in VoxelsOf(cvps) : ~OutsideCorner(cvps, c)}
  /\ cpass = "done" =>
       /\ SeqToSet(visited_exterior) = {c \in VoxelsOf(cvps) : OutsideCorner(cvps, c)}
       /\ Len(visited_interior) + Len(visited_exterior) = cvps * cvps * cvps
       /\ SeqToSet(visited_interior) \cup SeqToSet(visited_exterior) = VoxelsOf(cvps)

\* Both passes of a block of 3 x 3 x 3 voxels have ended: 8 and 19 cells.
CellCoverageWitness ==
  /\ cpass = "done"
  /\ cvps = 3
  /\ Len(visited_interior) = 8
  /\ Len(visited_exterior) = 19
(***************************************************************************)
(* Properties of generateMesh.                                             *)
(***************************************************************************)
\* The call in progress is generateMesh(false, true) and directly follows a
\* generateMesh(false, true) with no fusion update in between.
SecondFullCall ==
  /\ last.valid
  /\ ~only_mesh_updated_blocks
  /\ clear_updated_flag

\* C6: when the second of two successive generateMesh(false, true) calls has
\* joined its exterior phase, every mesh entry (vertices, indices, colors,
\* updated) and every label vector is what the first call left.
Idempotence ==
  (pc = "clear_flags" /\ SecondFullCall) =>
     /\ mesh_layer = last.mesh
     /\ semantic_blocks = last.semantics

\* A second full call has rebuilt a non-empty mesh with labels.
IdempotenceWitness ==
  /\ pc = "clear_flags"
  /\ SecondFullCall
  /\ has_semantics
  /\ integrator_threads >= 1
  /\ \E b \in DOMAIN mesh_layer :
       Len(mesh_layer[b].vertices) > 0 /\ Len(semantic_blocks[b]) > 0

\* C7: while no generateMesh call is executing, every mesh entry has as many
\* colors as vertices.
ColorsMatchVertices ==
  pc = "idle" =>
    \A b \in DOMAIN mesh_layer :
       Len(mesh_layer[b].colors) = Len(mesh_layer[b].vertices)

\* After a call, a generated mesh entry with vertices.
ColorsMatchVerticesWitness ==
  /\ pc = "idle"
  /\ \E b \in DOMAIN mesh_layer :
       mesh_layer[b].updated /\ Len(mesh_layer[b].vertices) > 0

\* C8: when the interior phase is launched every marker voxel of every
\* candidate block is false, and from then to the end of the call a marker
\* voxel of a candidate block is true only if the cube sampler has set it
\* during the call.
MarkersNeverStale ==
  /\ pc = "launch_interior" => \A b \in SeqToSet(blocks) : vertex_layer[b] = {}
  /\ pc # "idle" => \A b \in SeqToSet(blocks) : vertex_layer[b] \subseteq cube_marked[b]

\* A call has ended for a candidate block whose markers before the call are
\* not the ones the call set.
MarkersNeverStaleWitness ==
  /\ pc = "clear_flags"
  /\ \E b \in SeqToSet(blocks) \cap DOMAIN pre.vertex :
       /\ pre.vertex[b] # {}
       /\ vertex_layer[b] # pre.vertex[b]

\* The step in which generateMesh returns.
Returns == pc = "clear_flags" /\ pc' = "idle"

\* C9: when generateMesh returns, with clear_flag no candidate block is
\* flagged (the flagged blocks are the ones flagged before the call that were
\* not candidates), and without clear_flag the flagged blocks are exactly the
\* ones flagged before the call.
FlagClearing ==
  [][Returns =>
       IF clear_updated_flag
       THEN /\ \A b \in SeqToSet(blocks) : ~sdf_layer'[b].updated
            /\ Flagged(sdf_layer') = pre.flagged \ SeqToSet(blocks)
       ELSE Flagged(sdf_layer') = pre.flagged]_vars

\* Between calls, a block whose flag has been cleared next to a flagged one.
FlagClearingWitness ==
  /\ pc = "idle"
  /\ \E b \in DOMAIN sdf_layer : ~sdf_layer[b].updated
  /\ \E b \in DOMAIN sdf_layer : sdf_layer[b].updated

\* C10: when generateMesh returns, its candidates were the blocks flagged at
\* the start of the call (only_updated) or all allocated blocks (otherwise),
\* each listed once and, with at least one worker, each updated once per
\* phase; mesh entries and marker blocks exist for what existed before and
\* for the candidates only; the mesh entry, the marker voxels, the flag and
\* the distance voxels of every non-candidate block are what they were when
\* the call started; with no candidates nothing has changed.
SelectionAndFrame ==
  [][Returns =>
       LET cand == SeqToSet(blocks) IN
       /\ cand = IF only_mesh_updated_blocks THEN pre.flagged ELSE DOMAIN sdf_layer
       /\ NoRepeat(blocks)
       /\ integrator_threads >= 1 =>
            \A i \in 1..Len(blocks) : interior_calls[i] = 1 /\ exterior_calls[i] = 1
       /\ DOMAIN mesh_layer' = DOMAIN pre.mesh \cup cand
       /\ DOMAIN vertex_layer' = DOMAIN pre.vertex \cup cand
       /\ \A b \in DOMAIN pre.mesh \ cand : mesh_layer'[b] = pre.mesh[b]
       /\ \A b \in DOMAIN pre.vertex \ cand : vertex_layer'[b] = pre.vertex[b]
       /\ \A b \in DOMAIN sdf_layer \ cand : sdf_layer'[b] = sdf_layer[b]
       /\ cand = {} =>
            /\ mesh_layer' = pre.mesh
            /\ vertex_layer' = pre.vertex
            /\ sdf_layer' = sdf_layer]_vars

\* A call over the flagged blocks only has ended, next to a block that was not
\* a candidate and holds a mesh.
SelectionAndFrameWitness ==
  /\ pc = "clear_flags"
  /\ only_mesh_updated_blocks
  /\ integrator_threads >= 1
  /\ blocks # << >>
  /\ \E b \in DOMAIN pre.mesh \ SeqToSet(blocks) : Len(mesh_layer[b].vertices) > 0

(***************************************************************************)
(* Properties of the per-cell extraction, checked on the distance field    *)
(* of every generateMesh call.                                             *)
(***************************************************************************)
\* An accumulator in the middle of a block pass: one triangle emitted so far.
MidPass ==
  [vertices |-> [i \in 1..3 |-> [from |-> <<0, 0, 0>>, to |-> <<1, 0, 0>>,
                                 near |-> <<0, 0, 0>>]],
   indices |-> <<0, 1, 2>>, next |-> 3, written |-> {<<B000, <<0, 0, 0>>>>},
   reads |-> {B000}]

\* The cells each loop visits, as <<index, border>>.
CellsVisited ==
  {<<BlockInteriorCells[k], FALSE>> : k \in DOMAIN BlockInteriorCells}
    \cup {<<BlockExteriorCells[k], TRUE>> : k \in DOMAIN BlockExteriorCells}

\* Some corner of the cell lies in a block that is not allocated, or its voxel
\* has a weight below min_weight.
MissingData(sdf, b, cell) ==
  \E i \in Corners :
     LET g == CornerGeometry[cell[1]][i]
         nb == IF g.inside THEN b ELSE Add3(b, g.block_offset)
     IN nb \notin DOMAIN sdf \/ sdf[nb].voxels[g.voxel].w < min_weight

\* C11: a cell with a corner voxel of weight below min_weight, or a border cell
\* with a corner in a block that is not allocated, is skipped as a whole: the
\* extraction returns the mesh, the running index and the marker set it was
\* given, whichever corner is the failing one.
MissingDataSkip ==
  pc = "launch_interior" =>
    \A b \in DOMAIN sdf_layer : \A cell \in CellsVisited :
       MissingData(sdf_layer, b, cell) =>
         LET r == extractCell(sdf_layer, b, cell[1], cell[2], MidPass) IN
         /\ r.vertices = MidPass.vertices
         /\ r.indices = MidPass.indices
         /\ r.next = MidPass.next
         /\ r.written = MidPass.written

\* A call whose field holds a cell with a positive distance at its first corner and
\* no data at a later one, and a border cell whose neighbour is not allocated.
MissingDataSkipWitness ==
  /\ pc = "launch_interior"
  /\ \E b \in DOMAIN sdf_layer : \E cell \in CellsVisited :
        /\ ~cell[2]
        /\ MissingData(sdf_layer, b, cell)
        /\ FirstFail(sdf_layer, b, cell[1], FALSE) \in 2..8
        /\ sdf_layer[b].voxels[cell[1]].d > 0
  /\ \E b \in DOMAIN sdf_layer : \E cell \in CellsVisited :
        /\ cell[2]
        /\ \E i \in Corners : ~BorderCorner(sdf_layer, b, cell[1], i).found

\* C12: the marker references handed to the cube sampler for a cell of block
\* b point into b for the corners inside b and are null for every corner in a
\* neighbour block; hence the markers a block update sets are all markers of
\* the block it was called for, in both phases.
NoCrossBlockMarkers ==
  /\ pc = "launch_interior" =>
       \A b \in DOMAIN sdf_layer : \A cell \in CellsVisited :
          LET got == CellCorners(sdf_layer, b, cell[1], cell[2]) IN
          got.stop = 9 =>
            \A i \in Corners :
               got.voxels[i] =
                 IF CornerGeometry[cell[1]][i].inside
                 THEN <<b, Add3(cell[1], cube_index_offsets[i])>>
                 ELSE NULL
  /\ \A w \in Workers :
       wstate[w] = "work" => \A m \in update[w].written : m[1] = BlockOf(widx[w])

\* An exterior update in flight that has set markers of its own block and has
\* sampled a border cell whose surface crossing lies at a corner held by an
\* allocated neighbour block.
NoCrossBlockMarkersWitness ==
  /\ pc = "join_exterior"
  /\ \E w \in Workers :
        /\ wstate[w] = "work"
        /\ update[w].written # {}
        /\ \E k \in DOMAIN BlockExteriorCells :
              LET cell == BlockExteriorCells[k]
                  got == CellCorners(sdf_layer, BlockOf(widx[w]), cell, TRUE)
              IN /\ got.stop = 9
                 /\ \E i \in Corners : /\ ~CornerGeometry[cell][i].inside
                                       /\ got.sdf[i] > 0

\* C13: generateMesh only reads the distance field.  Every step of a call, from
\* its first to its return, leaves the set of allocated distance blocks and the
\* distance and weight of every voxel as they are (so a look-up of a missing
\* neighbour allocates nothing); the only write is the reset of the
\* needs-remeshing flag of candidate blocks at the return of a call with
\* clear_updated_flag.
DistanceFieldReadOnly ==
  [][(pc # "idle" \/ pc' # "idle") =>
       /\ DOMAIN sdf_layer' = DOMAIN sdf_layer
       /\ \A b \in DOMAIN sdf_layer :
             /\ sdf_layer'[b].voxels = sdf_layer[b].voxels
             /\ sdf_layer'[b].updated # sdf_layer[b].updated =>
                  /\ Returns
                  /\ clear_updated_flag
                  /\ b \in SeqToSet(blocks)
                  /\ ~sdf_layer'[b].updated]_vars

\* A call with clear_updated_flag about to return, one of whose border cells
\* looked up a neighbour block that is not allocated.
DistanceFieldReadOnlyWitness ==
  /\ pc = "clear_flags"
  /\ clear_updated_flag
  /\ integrator_threads >= 1
  /\ \E b \in SeqToSet(blocks) : \E k \in DOMAIN BlockExteriorCells :
        /\ sdf_layer[b].updated
        /\ \E i \in Corners : ~BorderCorner(sdf_layer, b, BlockExteriorCells[k], i).found

\* C14: under fair scheduling every generateMesh call returns, for every
\* candidate list (empty included) and every thread count (0 included).  The
\* return is only reached through the join of the interior phase and the join
\* of the exterior phase, each of which needs every worker of the phase to
\* have left its claim loop.
Termination == (pc # "idle") ~> (pc = "idle")

\* A call over three candidates with two workers has run both phases and is
\* about to return.
TerminationWitness ==
  /\ pc = "clear_flags"
  /\ Len(blocks) = 3
  /\ integrator_threads = MaxThreads
  /\ \A i \in DOMAIN blocks : interior_calls[i] = 1 /\ exterior_calls[i] = 1

\* A vertex on a cell edge that leaves block b.
LeavesBlock(b, vertex) ==
  \E k \in 1..3 : vertex.from[k] >= (b[k] + 1) * VPS \/ vertex.to[k] >= (b[k] + 1) * VPS

\* C15: with at least one thread, every candidate's mesh entry has updated =
\* true when the call is about to return.  A block is painted and marked once,
\* by its exterior update, after its interior update has returned and after
\* the border cells of that same update: at that point every vertex has its
\* colour, and the entry does not change again before the call returns.
PaintThenMark ==
  /\ [](\A i \in DOMAIN exterior_calls :
          exterior_calls[i] >= 1 =>
            /\ interior_calls[i] = 1
            /\ mesh_layer[blocks[i]].updated
            /\ Len(mesh_layer[blocks[i]].colors) = Len(mesh_layer[blocks[i]].vertices))
  /\ [](pc = "clear_flags" /\ integrator_threads >= 1 =>
          \A i \in DOMAIN blocks : exterior_calls[i] = 1)
  /\ [][\A i \in DOMAIN exterior_calls :
          exterior_calls[i] >= 1 => mesh_layer'[blocks[i]] = mesh_layer[blocks[i]]]_vars

\* A call about to return, one of whose candidates holds a vertex of an interior
\* cell followed by a vertex of a border cell, all painted.
PaintThenMarkWitness ==
  /\ pc = "clear_flags"
  /\ integrator_threads >= 1
  /\ \E b \in SeqToSet(blocks) :
        LET m == mesh_layer[b] IN
        /\ m.updated
        /\ Len(m.vertices) > 3
        /\ ~LeavesBlock(b, m.vertices[1])
        /\ LeavesBlock(b, m.vertices[Len(m.vertices)])
        /\ Len(m.colors) = Len(m.vertices)

(***************************************************************************)
(* The two passes of one block in both orders.  A block's passes read the  *)
(* distance layer and the block's own mesh entry only, so the phases in    *)
(* either order give each block the result of its two passes in that order.*)
(***************************************************************************)
InteriorThenExterior(sdf, b, mesh) ==
  BlockExterior(sdf, b, BlockInterior(sdf, b, mesh).mesh).mesh

ExteriorThenInterior(sdf, b, mesh) ==
  BlockInterior(sdf, b, BlockExterior(sdf, b, mesh).mesh).mesh

\* The triangles of a mesh as emitted (three consecutive vertices each) and as
\* its indices name them.
EmittedTriangles(mesh) ==
  {<<mesh.vertices[3 * k + 1], mesh.vertices[3 * k + 2], mesh.vertices[3 * k + 3]>> :
     k \in 0..((Len(mesh.vertices) \div 3) - 1)}

\* Every index names the vertex that was emitted with it.
IndicesMatch(mesh) ==
  /\ Len(mesh.indices) = Len(mesh.vertices)
  /\ \A i \in DOMAIN mesh.indices : mesh.indices[i] = i - 1

AllInvalid(sdf, b) == \A v \in Voxels : sdf[b].voxels[v].w < min_weight

\* C17: when a call is about to return, a candidate block without any valid
\* voxel has a mesh entry, and the entry holds no vertex, no index and no
\* colour, whatever the entry held before the call and whatever its
\* neighbours hold, for every thread count.
InvalidBlockEmptyMesh ==
  pc = "clear_flags" =>
    \A b \in SeqToSet(blocks) :
       AllInvalid(sdf_layer, b) =>
         /\ b \in DOMAIN mesh_layer
         /\ mesh_layer[b].vertices = << >>
         /\ mesh_layer[b].indices = << >>
         /\ mesh_layer[b].colors = << >>

\* A call about to return over a candidate without valid voxels whose entry
\* held vertices before the call and which has an allocated neighbour with
\* valid data.
InvalidBlockEmptyMeshWitness ==
  /\ pc = "clear_flags"
  /\ pre.valid
  /\ \E b \in SeqToSet(blocks) :
        /\ AllInvalid(sdf_layer, b)
        /\ b \in DOMAIN pre.mesh
        /\ Len(pre.mesh[b].vertices) > 0
        /\ \E nb \in DOMAIN sdf_layer \ {b} : ~AllInvalid(sdf_layer, nb)

\* The distances at the corners of the cell at index in block b.
CornerDistances(sdf, b, index) ==
  [i \in Corners |-> sdf[b].voxels[Add3(index, cube_index_offsets[i])].d]

\* The distances of a cell's corners all have the same sign.
SameSign(sdf) == (\A i \in Corners : sdf[i] < 0) \/ (\A i \in Corners : sdf[i] >= 0)

\* The marker voxels of the corners of the cell at index in block b.
CornerMarkers(b, index) == {<<b, Add3(index, cube_index_offsets[i])>> : i \in Corners}

\* C18: for an interior cell all of whose corners have data, extraction emits
\* nothing (and sets no marker) when the 8 distances share a sign; when they
\* do not, it emits at least one triangle, with one index per vertex, and sets
\* the marker of at least one of the cell's 8 corners and of no other voxel.
SignRule ==
  (cube_out # << >> /\ ~MissingData(cube_field, B000, <<Origin, FALSE>>)) =>
     LET sdf == CornerDistances(cube_field, B000, Origin)
         r == cube_out[1]
     IN IF SameSign(sdf)
        THEN r.vertices = << >> /\ r.indices = << >> /\ r.written = {}
        ELSE /\ Len(r.vertices) >= 3
             /\ Len(r.vertices) % 3 = 0
             /\ Len(r.indices) = Len(r.vertices)
             /\ r.written # {}
             /\ r.written \subseteq CornerMarkers(B000, Origin)

\* A sampled cell with data at every corner and a single positive corner.
SignRuleWitness ==
  /\ cube_out # << >>
  /\ ~MissingData(cube_field, B000, <<Origin, FALSE>>)
  /\ Cardinality({i \in Corners : CornerDistances(cube_field, B000, Origin)[i] > 0}) = 1
  /\ Len(cube_out[1].vertices) = 3

\* The 8 corner voxels of a block.
BlockCornerVoxels == {v \in Voxels : \A k \in 1..3 : v[k] \in {0, VPS - 1}}

\* The layer holds block b only; every voxel of b has data and a negative
\* distance, except one corner voxel of the block, which is positive.
SingleCornerBlock(sdf, b) ==
  /\ DOMAIN sdf = {b}
  /\ \A v \in Voxels : sdf[b].voxels[v].w >= min_weight
  /\ \E c \in BlockCornerVoxels :
        \A v \in Voxels : (sdf[b].voxels[v].d > 0) <=> (v = c)

\* The visited cells of b that reach the cube sampler with a sign change.
SignChangeCells(sdf, b) ==
  {cell \in CellsVisited :
     LET got == CellCorners(sdf, b, cell[1], cell[2]) IN
     got.stop = 9 /\ ~SameSign(got.sdf)}

RECURSIVE AllGraphs(_)
AllGraphs(msgs) ==
  IF msgs = << >> THEN << >>
  ELSE AllGraphs(SubSeq(msgs, 1, Len(msgs) - 1)) \o msgs[Len(msgs)]

NeighborIndexArithmetic ==
  \A k \in DOMAIN visited_exterior : \A i \in Corners : \A b \in {B000, B111} :
     LET corner_index == Add3(visited_exterior[k], cube_index_offsets[i])
         neighbor_idx == getNeighborBlockIndex(cvps, b, corner_index)
         rewritten == wrappedCornerIndex(cvps, corner_index)
     IN ~isValidVoxelIndex(cvps, corner_index) =>
          /\ \A j \in 1..3 :
                /\ corner_index[j] >= cvps =>
                     neighbor_idx[j] = b[j] + 1 /\ rewritten[j] = corner_index[j] - cvps
                /\ corner_index[j] < 0 =>
                     neighbor_idx[j] = b[j] - 1 /\ rewritten[j] = corner_index[j] + cvps
                /\ (corner_index[j] >= 0 /\ corner_index[j] < cvps) =>
                     neighbor_idx[j] = b[j] /\ rewritten[j] = corner_index[j]
          /\ neighbor_idx # b
          /\ isValidVoxelIndex(cvps, rewritten)
          /\ GridPoint(cvps, neighbor_idx, rewritten) = GridPoint(cvps, b, corner_index)

\* The exterior pass of a block has ended and has visited the far corner cell,
\* whose last corner leaves the block in all three axes.
NeighborIndexArithmeticWitness ==
  /\ cpass = "done"
  /\ cvps >= 2
  /\ \E k \in DOMAIN visited_exterior :
        \A j \in 1..3 : Add3(visited_exterior[k], cube_index_offsets[7])[j] >= cvps

\* The number of vertices the interior pass of b emits on a cleared entry.
InteriorVertexCount(sdf, b) == Len(BlockInterior(sdf, b, EmptyMesh).mesh.vertices)

\* C22: when a call is about to return, every index of every candidate's mesh
\* is smaller than the block's vertex count, the indices of the interior-pass
\* vertices are 0 .. n - 1, those of the exterior-pass vertices continue from
\* n, and no index value belongs to a vertex of each pass.
IndexContinuity ==
  pc = "clear_flags" =>
    \A b \in SeqToSet(blocks) :
       LET m == mesh_layer[b]
           n == IF integrator_threads = 0 THEN 0 ELSE InteriorVertexCount(sdf_layer, b)
           interior == {m.indices[i] : i \in 1..n}
           exterior == {m.indices[i] : i \in (n + 1)..Len(m.indices)}
       IN /\ n <= Len(m.vertices)
          /\ Len(m.indices) = Len(m.vertices)
          /\ \A i \in DOMAIN m.indices : m.indices[i] >= 0 /\ m.indices[i] < Len(m.vertices)
          /\ interior = 0..(n - 1)
          /\ exterior = n..(Len(m.vertices) - 1)
          /\ interior \cap exterior = {}

\* A call about to return with a candidate whose mesh holds vertices of both
\* passes.
IndexContinuityWitness ==
  /\ pc = "clear_flags"
  /\ integrator_threads >= 1
  /\ \E b \in SeqToSet(blocks) :
        /\ InteriorVertexCount(sdf_layer, b) > 0
        /\ Len(mesh_layer[b].vertices) > InteriorVertexCount(sdf_layer, b)

\* The cells of block b in the order its two passes visit them, each named by
\* the grid point of its minimal corner.
GridCellsOf(b) ==
  [k \in 1..(Len(BlockInteriorCells) + Len(BlockExteriorCells)) |->
     GridPoint(VPS, b, (BlockInteriorCells \o BlockExteriorCells)[k])]

\* C23: over a call on all allocated blocks, a cell of the global grid is
\* visited once, by the block that holds its minimal corner, and by no other
\* block; and a cell whose 8 corners all lie in allocated blocks and have
\* data reaches the cube sampler from that block.
NoDuplicateCells ==
  (pc = "launch_interior" /\ ~only_mesh_updated_blocks) =>
        /\ \A b \in SeqToSet(blocks) :
              /\ NoRepeat(GridCellsOf(b))
              /\ \A k \in DOMAIN GridCellsOf(b) :
                    \A j \in 1..3 : GridCellsOf(b)[k][j] \div VPS = b[j]
              /\ \A index \in Voxels :
                    ~MissingData(sdf_layer, b, <<index, TRUE>>) =>
                       \E cell \in CellsVisited :
                          /\ cell[1] = index
                          /\ FirstFail(sdf_layer, b, cell[1], cell[2]) = 9
        /\ \A b1 \in SeqToSet(blocks) : \A b2 \in SeqToSet(blocks) \ {b1} :
              SeqToSet(GridCellsOf(b1)) \cap SeqToSet(GridCellsOf(b2)) = {}

\* A call on two adjacent blocks where a border cell of one, with corners in
\* the other, has data at all corners and a sign change.
NoDuplicateCellsWitness ==
  /\ pc = "launch_interior"
  /\ ~only_mesh_updated_blocks
  /\ Len(blocks) >= 2
  /\ \E b \in SeqToSet(blocks) : \E k \in DOMAIN BlockExteriorCells :
        LET got == CellCorners(sdf_layer, b, BlockExteriorCells[k], TRUE) IN
        got.stop = 9 /\ ~SameSign(got.sdf)

\* What a call leaves for block b as a function of the distance field alone:
\* the mesh entry of the two passes on an empty entry, the labels painted on
\* it, and the marker voxels of b the two passes set.
Regenerated(sdf, b) ==
  LET interior == BlockInterior(sdf, b, EmptyMesh)
      exterior == BlockExterior(sdf, b, interior.mesh)
  IN [vertices |-> exterior.mesh.vertices,
      indices |-> exterior.mesh.indices,
      colors |-> exterior.mesh.colors,
      labels |-> updateMeshLabels(sdf, b, exterior.mesh, << >>),
      markers |-> {m[2] : m \in interior.written \cup exterior.written}]

\* C24: with at least one thread, when a call is about to return the mesh
\* (vertex order, indices, colors), the labels and the marker flags of every
\* candidate are the ones determined by the distance field: the same for
\* every thread count, every interleaving of the workers and whatever the mesh
\* store and the marker layer held before.
ScheduleIndependence ==
  (pc = "clear_flags" /\ integrator_threads >= 1) =>
     \A b \in SeqToSet(blocks) :
        LET r == Regenerated(sdf_layer, b) IN
        /\ mesh_layer[b].vertices = r.vertices
        /\ mesh_layer[b].indices = r.indices
        /\ mesh_layer[b].colors = r.colors
        /\ has_semantics => semantic_blocks[b] = r.labels
        /\ vertex_layer[b] = r.markers

\* A call of MaxThreads workers about to return, with a candidate whose entry
\* held other vertices before the call than it holds now.
ScheduleIndependenceWitness ==
  /\ pc = "clear_flags"
  /\ integrator_threads = MaxThreads
  /\ Len(blocks) >= 2
  /\ pre.valid
  /\ \E b \in SeqToSet(blocks) :
        /\ b \in DOMAIN pre.mesh
        /\ pre.mesh[b].vertices # << >>
        /\ mesh_layer[b].vertices # << >>
        /\ pre.mesh[b].vertices # mesh_layer[b].vertices

\* The vertices of mesh entry m of block b whose voxel index is out of range
\* in b, so that painting looks their block up by coordinates.
FallbackVertices(b, m) ==
  {i \in DOMAIN m.vertices :
     ~isValidVoxelIndex(VPS, [j \in 1..3 |-> m.vertices[i].near[j] - b[j] * VPS])}

\* C25: every vertex that painting looks up by coordinates lies in an
\* allocated distance block, both in the exterior updates in flight and in
\* the stored entries, so no colour or label is read through a missing block.
PaintingFindsBlock ==
  /\ \A w \in Workers :
       (pc = "join_exterior" /\ wstate[w] = "work") =>
          LET b == BlockOf(widx[w]) IN
          /\ \A i \in FallbackVertices(b, update[w].mesh) :
                PaintVoxel(sdf_layer, b, update[w].mesh.vertices[i]).found
          /\ \A i \in DOMAIN update[w].mesh.colors : update[w].mesh.colors[i] # NullDeref
  /\ \A b \in DOMAIN mesh_layer :
       /\ \A i \in DOMAIN mesh_layer[b].colors : mesh_layer[b].colors[i] # NullDeref
       /\ b \in DOMAIN semantic_blocks =>
            \A i \in DOMAIN semantic_blocks[b] : semantic_blocks[b][i] # NullDeref

\* An exterior update in flight has painted a vertex from a neighbour block
\* while another neighbour of its block is not allocated.
PaintingFindsBlockWitness ==
  /\ pc = "join_exterior"
  /\ \E w \in Workers :
        /\ wstate[w] = "work"
        /\ FallbackVertices(BlockOf(widx[w]), update[w].mesh) # {}
        /\ \E k \in DOMAIN BlockExteriorCells : \E i \in Corners :
              ~BorderCorner(sdf_layer, BlockOf(widx[w]), BlockExteriorCells[k], i).found

(***************************************************************************)
(* Incremental operation: fusion updates alternating with calls of         *)
(* generateMesh(only_updated = true, clear_flag = true) only.  Fusion      *)
(* flags exactly the block it wrote and every call clears the flags of its *)
(* candidates, so before each call the flagged blocks are the ones changed *)
(* or allocated since the previous call.                                   *)
(***************************************************************************)
NextIncremental ==
  \/ Fusion
  \/ generateMesh(TRUE, TRUE)
  \/ launchThreads
  \/ joinThreads
  \/ \E w \in Workers : processInterior(w)
  \/ \E w \in Workers : updateBlockInterior(w)
  \/ \E w \in Workers : processExterior(w)
  \/ \E w \in Workers : updateBlockExterior(w)
  \/ finishGenerateMesh

SpecIncremental == Init /\ [][NextIncremental]_vars

\* The mesh entry generateMesh(only_updated = false) leaves for block b with
\* threads worker threads: cleared, and regenerated if there is a worker.
FullStore(sdf, threads, b) ==
  IF threads = 0
  THEN [vertices |-> << >>, indices |-> << >>, colors |-> << >>]
  ELSE LET r == Regenerated(sdf, b)
       IN [vertices |-> r.vertices, indices |-> r.indices, colors |-> r.colors]

BothUpdatesDone(b) ==
  \E i \in DOMAIN blocks :
     /\ blocks[i] = b
     /\ interior_calls[i] >= 1
     /\ exterior_calls[i] >= 1

\* C27: whatever the thread count, a step that resets the needs-remeshing flag
\* of a block is taken by a call in which the interior update and the
\* exterior update of that block have both completed.
NoLostRemesh ==
  [][\A b \in DOMAIN sdf_layer :
        (sdf_layer[b].updated /\ ~sdf_layer'[b].updated) => BothUpdatesDone(b)]_vars

(***************************************************************************)
(* Room metrics (eval): scoreRooms applied to a pair of room maps.  A room *)
(* map is a std::map from room id to a set of place indices, iterated in   *)
(* ascending id order.  A quotient of doubles is kept as [num, den].       *)
(***************************************************************************)
RoomIds == 1..MaxRooms

PlaceIndices == 1..MaxIndex

RoomMaps == UNION {[ids -> SUBSET PlaceIndices] : ids \in SUBSET RoomIds}

\* The ids of a room map in iteration order.
RoomOrder(rooms) == SelectSeq([i \in 1..MaxRooms |-> i], LAMBDA k : k \in DOMAIN rooms)

getSizes(rooms) ==
  [k \in 1..Len(RoomOrder(rooms)) |-> Cardinality(rooms[RoomOrder(rooms)[k]])]

\* overlaps(gt_idx, est_idx): the indices of the estimated room that the
\* ground-truth room holds.
computeOverlap(gt, est) ==
  [i \in 1..Len(RoomOrder(gt)) |->
     [j \in 1..Len(RoomOrder(est)) |->
        Cardinality(est[RoomOrder(est)[j]] \cap gt[RoomOrder(gt)[i]])]]

RECURSIVE Accumulate(_)
Accumulate(s) == IF s = << >> THEN 0 ELSE s[1] + Accumulate(Tail(s))

MaxCoeff(S) == CHOOSE m \in S : \A x \in S : x <= m

Ratio(n, d) == [num |-> n, den |-> d]

Zero == Ratio(0, 1)

\* A member scoreRooms never assigns.
Unassigned == [assigned |-> FALSE]

\* The process ended in a failed CHECK or a failed assertion.
Aborted == [aborted |-> TRUE]

\* What maxCoeff of an empty row or column may evaluate to when assertions
\* are compiled out.
Undefined == 0..MaxIndex

\* The body of scoreRooms when both CHECK_EQs pass; u is the value an empty
\* reduction yields.
scoreRoomsReturn(gt, est, u) ==
  LET gt_sizes == getSizes(gt)
      est_sizes == getSizes(est)
      overlaps == computeOverlap(gt, est)
      max_gt_overlaps == [i \in DOMAIN gt_sizes |->
                            IF est_sizes = << >> THEN u
                            ELSE MaxCoeff({overlaps[i][j] : j \in DOMAIN est_sizes})]
      max_est_overlaps == [j \in DOMAIN est_sizes |->
                             IF gt_sizes = << >> THEN u
                             ELSE MaxCoeff({overlaps[i][j] : i \in DOMAIN gt_sizes})]
      gt_recalls == [i \in DOMAIN gt_sizes |->
                       IF gt_sizes[i] # 0 THEN Ratio(max_gt_overlaps[i], gt_sizes[i])
                       ELSE Zero]
      est_recalls == [j \in DOMAIN est_sizes |->
                        IF est_sizes[j] # 0 THEN Ratio(max_est_overlaps[j], est_sizes[j])
                        ELSE Zero]
      total_est_size == Accumulate(est_sizes)
  IN [gt_sizes |-> gt_sizes,
      est_sizes |-> est_sizes,
      overlaps |-> overlaps,
      recalls |-> gt_recalls \o est_recalls,
      precisions |-> << >>,
      total_recall |-> IF total_est_size # 0
                       THEN Ratio(Accumulate(max_est_overlaps), total_est_size)
                       ELSE Zero,
      total_precision |-> Unassigned]

\* scoreRooms evaluates maxCoeff over an empty row or column.
EmptyReduction(gt, est) ==
  \/ /\ est = << >>
     /\ \E k \in DOMAIN gt : gt[k] # {}
  \/ /\ gt = << >>
     /\ \E k \in DOMAIN est : est[k] # {}

\* The outcomes of scoreRooms(gt, est).  rowwise().maxCoeff() has one row per
\* ground-truth room, so the first CHECK_EQ passes; colwise().maxCoeff() is
\* a row vector, so the second one compares 1 with the number of estimated
\* rooms.
scoreRoomsOutcomes(gt, est) ==
  IF Len(getSizes(est)) # 1 THEN {Aborted}
  ELSE IF EmptyReduction(gt, est)
       THEN {Aborted} \cup {scoreRoomsReturn(gt, est, u) : u \in Undefined}
       ELSE {scoreRoomsReturn(gt, est, 0)}

InitRooms ==
  /\ gt_rooms \in RoomMaps
  /\ est_rooms \in RoomMaps
  /\ results = << >>
  /\ MeshIdle
  /\ WalkIdle
  /\ CubeIdle
  /\ TrackerIdle

scoreRooms ==
  /\ results = << >>
  /\ \E r \in scoreRoomsOutcomes(gt_rooms, est_rooms) : results' = <<r>>
  /\ UNCHANGED <<gt_rooms, est_rooms>>
  /\ UNCHANGED <<meshVars, walkVars, cubeVars, trackerVars>>

NextRooms == scoreRooms

SpecRooms == InitRooms /\ [][NextRooms]_vars

\* C28: for every pair of room maps scoreRooms returns, recalls has one entry
\* per ground-truth room, precisions has one entry per estimated room,
\* total_recall is the sum of the best overlaps of the ground-truth rooms
\* over their total size and total_precision the same for the estimated
\* rooms.
ResultShape ==
  results # << >> =>
     /\ results[1] # Aborted
     /\ Len(results[1].recalls) = Cardinality(DOMAIN gt_rooms)
     /\ Len(results[1].precisions) = Cardinality(DOMAIN est_rooms)
     /\ results[1].total_recall.den \in {1, Accumulate(getSizes(gt_rooms))}
     /\ results[1].total_precision # Unassigned
     /\ results[1].total_precision.den \in {1, Accumulate(getSizes(est_rooms))}

====
